---- MODULE Spec2Model ----
(***************************************************************************)
(* ForensicMetadataAnalyzer (src/rar.py): the categorizer, the tag         *)
(* correlation engine, the file/tag graph builder, the content similarity  *)
(* analyzer and the threat report, as a state machine over one analyzer    *)
(* object.  Python strings are TLA+ strings; dicts are functions; lists    *)
(* are sequences; list positions are 0-based as in the source.             *)
(***************************************************************************)
EXTENDS Integers, Sequences, FiniteSets, TLC

VARIABLES data, threat_items, safe_items, correlations, tag_graph, loads, ret

vars == <<data, threat_items, safe_items, correlations, tag_graph, loads, ret>>

-----------------------------------------------------------------------------
(* Python str primitives *)

\* the characters the inputs use, in code point order
Alphabet == " !\"'+,-.0123456789ABCDEFGHIJKLMNOPQRSTUVWXYZ[\\]_abcdefghijklmnopqrstuvwxyz"

UpperCase == "ABCDEFGHIJKLMNOPQRSTUVWXYZ"

LowerCase == "abcdefghijklmnopqrstuvwxyz"

Digits == "0123456789"

Char(s, i) == SubSeq(s, i, i)

CharSet(s) == {Char(s, i) : i \in 1..Len(s)}

IndexIn(s, c) == CHOOSE i \in 1..Len(s) : Char(s, i) = c

\* ord(c)
OrdTable == [c \in CharSet(Alphabet) |-> IndexIn(Alphabet, c)]

\* c.lower() for one character
LowerTable ==
    [c \in CharSet(Alphabet) |->
        IF c \in CharSet(UpperCase) THEN Char(LowerCase, IndexIn(UpperCase, c)) ELSE c]

\* \w of the re module on these characters
WordChars == CharSet(UpperCase) \cup CharSet(LowerCase) \cup CharSet(Digits) \cup {"_"}

RECURSIVE lower(_)
\* str.lower()
lower(s) == IF s = "" THEN "" ELSE LowerTable[Char(s, 1)] \o lower(SubSeq(s, 2, Len(s)))

\* sub in s
In(sub, s) == \E i \in 0..(Len(s) - Len(sub)) : SubSeq(s, i + 1, i + Len(sub)) = sub

RECURSIVE StrLess(_, _)
\* a < b on str (code point order)
StrLess(a, b) ==
    IF b = "" THEN FALSE
    ELSE IF a = "" THEN TRUE
    ELSE IF Char(a, 1) # Char(b, 1) THEN OrdTable[Char(a, 1)] < OrdTable[Char(b, 1)]
    ELSE StrLess(SubSeq(a, 2, Len(a)), SubSeq(b, 2, Len(b)))

\* set(re.findall(r'\b\w+\b', s)): the maximal runs of word characters
findall_words(s) ==
    {SubSeq(s, i, j) : <<i, j>> \in
        {p \in (1..Len(s)) \X (1..Len(s)) :
            /\ p[1] <= p[2]
            /\ \A k \in p[1]..p[2] : Char(s, k) \in WordChars
            /\ (p[1] = 1 \/ Char(s, p[1] - 1) \notin WordChars)
            /\ (p[2] = Len(s) \/ Char(s, p[2] + 1) \notin WordChars)}}

RECURSIVE escaped(_, _)
\* the body of repr(s) inside the quote character: a backslash and the quote
\* character get a backslash in front (every character of Alphabet is printable)
escaped(s, quote) ==
    IF s = "" THEN ""
    ELSE (IF Char(s, 1) \in {"\\", quote} THEN "\\" ELSE "") \o Char(s, 1)
         \o escaped(SubSeq(s, 2, Len(s)), quote)

\* repr(s) of a str: in double quotes when s holds ' and no ", in single
\* quotes otherwise
repr_str(s) ==
    LET quote == IF In("'", s) /\ ~In("\"", s) THEN "\"" ELSE "'"
    IN  quote \o escaped(s, quote) \o quote

RECURSIVE JoinQuoted(_)
\* ', '.join(repr(tag) for tag in tags)
JoinQuoted(tags) ==
    IF tags = <<>> THEN ""
    ELSE repr_str(Head(tags)) \o
         (IF Len(tags) = 1 THEN "" ELSE ", " \o JoinQuoted(Tail(tags)))

\* str(list of str): "['a', 'b']"
str_list(tags) == "[" \o JoinQuoted(tags) \o "]"

\* dict.get(key, default)
Get(item, key, default) == IF key \in DOMAIN item THEN item[key] ELSE default

\* truth value of item.get('content'): a missing key or an empty string is falsy
HasContent(item) == "content" \in DOMAIN item /\ item["content"] # ""

-----------------------------------------------------------------------------
(* Records and the inputs the model draws from *)

\* largest batch a fresh analyzer is given
MaxBatch == 2

\* largest batch of a session that reloads
MaxRecords == 2

\* load_json_data calls in one session
MaxLoads == 2

Range(f) == {f[i] : i \in DOMAIN f}

RECURSIVE SeqsUpTo(_, _)
SeqsUpTo(S, n) ==
    IF n = 0 THEN {<<>>}
    ELSE LET shorter == SeqsUpTo(S, n - 1)
         IN  shorter \cup {Append(q, r) : q \in {x \in shorter : Len(x) = n - 1}, r \in S}

\* the two records of the example of the specification's section 8
ExampleThreat ==
    [path |-> "a_threat.txt", type |-> "file", content |-> "planning an attack",
     tags |-> <<"rifle", "mask">>]

ExampleSafe ==
    [path |-> "b_safe.txt", type |-> "file", content |-> "grocery list", tags |-> <<"food">>]

\* marked safe by its path, with a content keyword, a weapon-like tag and a repeated tag
SafeBomb ==
    [path |-> "c_safe.txt", type |-> "file", content |-> "a bomb", tags |-> <<"mask", "food", "mask">>]

\* a tag equal to the record's own path; ten words shared 1:10 with TenB
TenA ==
    [path |-> "d.txt", type |-> "file", content |-> "a b c d e f", tags |-> <<"d.txt", "Rifle">>]

TenB == [path |-> "e.txt", type |-> "file", content |-> "A, g h i j", tags |-> <<>>]

\* text without a single word character
NoWords == [path |-> "2024-02-29.txt", type |-> "file", content |-> "!!", tags |-> <<"d.txt">>]

\* not a text file; neither content nor tags; no calendar date in its path
Image == [path |-> "2023-02-29.png", type |-> "image"]

\* a record without the path field
NoPath == [type |-> "file", content |-> "a b", tags |-> <<"mask">>]

FreshPool == {ExampleThreat, ExampleSafe, SafeBomb, TenA, TenB, NoWords, Image, NoPath}

SessionPool == {ExampleThreat, SafeBomb, TenB}

RulePaths == {"x_threat", "x_SAFE", "_safe_THREAT", "x"}

RuleContents == {"", "a Threat", "bomb", "ok"}

RuleTags == {<<>>, <<"Assault Rifle">>, <<"mask">>, <<"wea", "pon">>}

\* one record for every combination of path, content and tags the rules tell
\* apart, the content and the tags present or missing
RuleRecords ==
    {[path |-> p, type |-> "file", content |-> c, tags |-> t] :
        p \in RulePaths, c \in RuleContents, t \in RuleTags}
    \cup {[path |-> p, type |-> "file", content |-> c] : p \in RulePaths, c \in RuleContents}
    \cup {[path |-> p, type |-> "file", tags |-> t] : p \in RulePaths, t \in RuleTags}
    \cup {[path |-> p, type |-> "file"] : p \in RulePaths}

FreshDatasets == SeqsUpTo(FreshPool, MaxBatch) \cup {<<r>> : r \in RuleRecords}

SessionDatasets == SeqsUpTo(SessionPool, MaxRecords)

-----------------------------------------------------------------------------
(* _categorize_items *)

ContentKeywords == {"bomb", "attack", "explosive", "threat", "terrorist"}

WeaponWords == {"assault rifle", "rifle", "revolver", "weapon", "bulletproof"}

\* Category without its final else: an item no rule matches gets no list
Category_NoDefault(item) ==
    IF \/ In("_threat", lower(item["path"]))
       \/ In("threat", lower(Get(item, "content", "")))
    THEN "threat"
    ELSE IF In("_safe", lower(item["path"]))
    THEN "safe"
    ELSE IF HasContent(item) /\ \E keyword \in ContentKeywords : In(keyword, lower(item["content"]))
    THEN "threat"
    ELSE IF \E weapon \in WeaponWords : In(weapon, lower(str_list(Get(item, "tags", <<>>))))
    THEN "threat"
    ELSE "none"

\* Category with the content keywords looked up before the _safe marker
Category_KeywordsFirst(item) ==
    IF \/ In("_threat", lower(item["path"]))
       \/ In("threat", lower(Get(item, "content", "")))
    THEN "threat"
    ELSE IF HasContent(item) /\ \E keyword \in ContentKeywords : In(keyword, lower(item["content"]))
    THEN "threat"
    ELSE IF In("_safe", lower(item["path"]))
    THEN "safe"
    ELSE IF \E weapon \in WeaponWords : In(weapon, lower(str_list(Get(item, "tags", <<>>))))
    THEN "threat"
    ELSE "safe"

\* the if/elif chain of the loop body, for an item that has a path
Category(item) ==
    IF \/ In("_threat", lower(item["path"]))
       \/ In("threat", lower(Get(item, "content", "")))
    THEN "threat"
    ELSE IF In("_safe", lower(item["path"]))
    THEN "safe"
    ELSE IF HasContent(item) /\ \E keyword \in ContentKeywords : In(keyword, lower(item["content"]))
    THEN "threat"
    ELSE IF \E weapon \in WeaponWords : In(weapon, lower(str_list(Get(item, "tags", <<>>))))
    THEN "threat"
    ELSE "safe"

RECURSIVE categorize_from(_, _, _, _)
\* the loop of _categorize_items from position idx on: it appends to the lists
\* it is given and stops at the first item without a path
categorize_from(d, idx, threat, safe) ==
    IF idx >= Len(d)
    THEN [threat_items |-> threat, safe_items |-> safe, raised |-> "none"]
    ELSE LET item == d[idx + 1]
         IN  IF "path" \notin DOMAIN item
             THEN [threat_items |-> threat, safe_items |-> safe, raised |-> "KeyError"]
             ELSE LET c == Category(item)
                  IN  categorize_from(d, idx + 1,
                          IF c = "threat" THEN Append(threat, idx) ELSE threat,
                          IF c = "safe" THEN Append(safe, idx) ELSE safe)

_categorize_items(d, threat, safe) == categorize_from(d, 0, threat, safe)

-----------------------------------------------------------------------------
(* the analyzer *)

\* __init__: the empty data and the empty tag_graph stand for None; the other
\* operations are taken after a load only
Init ==
    /\ data = <<>>
    /\ threat_items = <<>>
    /\ safe_items = <<>>
    /\ correlations = <<>>
    /\ tag_graph = <<>>
    /\ loads = 0
    /\ ret = [op |-> "__init__", raised |-> "none"]

\* load_json_data(json_data) with a list of dicts
load_json_data(json_data) ==
    LET c == _categorize_items(json_data, threat_items, safe_items)
    IN  /\ data' = json_data
        /\ threat_items' = c.threat_items
        /\ safe_items' = c.safe_items
        /\ loads' = loads + 1
        /\ ret' = IF c.raised # "none"
                  THEN [op |-> "load_json_data", raised |-> c.raised]
                  ELSE [op |-> "load_json_data", raised |-> "none",
                        value |-> [items |-> Len(json_data),
                                   threats |-> Len(c.threat_items),
                                   safe |-> Len(c.safe_items)]]
        /\ UNCHANGED <<correlations, tag_graph>>

-----------------------------------------------------------------------------
(* find_tag_correlations *)

AllHavePath(d) == \A i \in 1..Len(d) : "path" \in DOMAIN d[i]

RECURSIVE Occurrences(_)
\* the (file_path, tag) pairs in the order the loop of lines 84-88 visits them
Occurrences(d) ==
    IF d = <<>> THEN <<>>
    ELSE LET tags == Get(d[1], "tags", <<>>)
         IN  [i \in 1..Len(tags) |-> <<d[1]["path"], tags[i]>>] \o Occurrences(Tail(d))

\* tag_to_files: tag -> list of file paths, one entry per occurrence
tag_to_files(d) ==
    LET occ == Occurrences(d)
    IN  [tag \in {o[2] : o \in Range(occ)} |->
            LET HasTag(o) == o[2] = tag
                sel == SelectSeq(occ, HasTag)
            IN  [i \in 1..Len(sel) |-> sel[i][1]]]

\* file_to_tags: file path -> list of tags, one entry per occurrence
file_to_tags(d) ==
    LET occ == Occurrences(d)
    IN  [file_path \in {o[1] : o \in Range(occ)} |->
            LET OfFile(o) == o[1] = file_path
                sel == SelectSeq(occ, OfFile)
            IN  [i \in 1..Len(sel) |-> sel[i][2]]]

\* tuple(sorted([a, b]))
tag_pair(a, b) == IF StrLess(b, a) THEN <<b, a>> ELSE <<a, b>>

RECURSIVE SumOver(_, _)
SumOver(f, S) ==
    IF S = {} THEN 0
    ELSE LET x == CHOOSE y \in S : TRUE IN f[x] + SumOver(f, S \ {x})

\* the positions i < j the double loop of lines 100-101 visits
PositionPairs(tags) == {p \in (1..Len(tags)) \X (1..Len(tags)) : p[1] < p[2]}

\* shared_tags: the tags whose file list has more than one entry
shared_tags_of(d) ==
    LET t2f == tag_to_files(d)
    IN  [tag \in {t \in DOMAIN t2f : Len(t2f[t]) > 1} |-> t2f[tag]]

\* tag_cooccurrence: sorted tag pair -> number of increments
tag_cooccurrence_of(d) ==
    LET f2t == file_to_tags(d)
        Pairs(tags) == {tag_pair(tags[p[1]], tags[p[2]]) : p \in PositionPairs(tags)}
    IN  [pr \in UNION {Pairs(f2t[f]) : f \in DOMAIN f2t} |->
            SumOver([f \in DOMAIN f2t |->
                        Cardinality({p \in PositionPairs(f2t[f]) :
                                        tag_pair(f2t[f][p[1]], f2t[f][p[2]]) = pr})],
                    DOMAIN f2t)]

\* what a call leaves in ret
Returned(op, r) ==
    IF r.raised = "none"
    THEN [op |-> op, raised |-> "none", value |-> r.value]
    ELSE [op |-> op, raised |-> r.raised]

\* the outcome of find_tag_correlations on data d: item['path'] raises before
\* anything is stored
find_tag_correlations_of(d) ==
    IF ~AllHavePath(d)
    THEN [raised |-> "KeyError"]
    ELSE [raised |-> "none",
          value |-> [shared_tags |-> shared_tags_of(d),
                     tag_cooccurrence |-> tag_cooccurrence_of(d)]]

find_tag_correlations ==
    /\ loads > 0
    /\ LET r == find_tag_correlations_of(data)
       IN  /\ correlations' = IF r.raised = "none" THEN r.value ELSE correlations
           /\ ret' = Returned("find_tag_correlations", r)
    /\ UNCHANGED <<data, threat_items, safe_items, tag_graph, loads>>

-----------------------------------------------------------------------------
(* build_tag_graph: an nx.Graph is the list of its nodes in insertion order,  *)
(* their attribute dicts and its edges; an edge is the set of its endpoints,  *)
(* a self-loop a set of one                                                   *)

EmptyGraph == [order |-> <<>>, attrs |-> <<>>, edges |-> {}]

\* G.add_node(node, **new): a new node gets the attributes, a known node has
\* its attribute dict updated with them
add_node(G, node, new) ==
    IF node \in DOMAIN G.attrs
    THEN [G EXCEPT !.attrs = (node :> (new @@ G.attrs[node])) @@ G.attrs]
    ELSE [G EXCEPT !.order = Append(G.order, node), !.attrs = (node :> new) @@ G.attrs]

\* G.add_edge(u, v) between nodes of the graph
add_edge(G, u, v) == [G EXCEPT !.edges = G.edges \cup {{u, v}}]

RECURSIVE add_tags(_, _, _)
\* the loop of lines 123-126 for one file
add_tags(G, file_path, tags) ==
    IF tags = <<>> THEN G
    ELSE LET tag == Head(tags)
             withNode == IF tag \notin DOMAIN G.attrs
                         THEN add_node(G, tag, [type |-> "tag"])
                         ELSE G
         IN  add_tags(add_edge(withNode, file_path, tag), file_path, Tail(tags))

RECURSIVE add_items(_, _, _, _)
\* the loop of lines 116-126 from position idx on, for items that all have a path
add_items(G, d, idx, threat) ==
    IF idx >= Len(d) THEN G
    ELSE LET item == d[idx + 1]
             file_path == item["path"]
             is_threat == \E k \in 1..Len(threat) : threat[k] = idx
             withFile == add_node(G, file_path,
                             [type |-> "file", file_type |-> item["type"], is_threat |-> is_threat])
         IN  add_items(add_tags(withFile, file_path, Get(item, "tags", <<>>)), d, idx + 1, threat)

\* the graph of lines 113-128
tag_graph_of(d, threat) == add_items(EmptyGraph, d, 0, threat)

\* G.degree(node): a self-loop counts twice
degree(G, node) ==
    Cardinality({e \in G.edges : node \in e /\ e # {node}}) + (IF {node} \in G.edges THEN 2 ELSE 0)

\* nx.degree_centrality(G) as node -> <<numerator, denominator>>: 1 for every
\* node of a graph of at most one node, degree / (len(G) - 1) otherwise
degree_centrality(G) ==
    [node \in DOMAIN G.attrs |->
        IF Len(G.order) <= 1 THEN <<1, 1>> ELSE <<degree(G, node), Len(G.order) - 1>>]

RECURSIVE sorted_desc(_, _)
\* sorted(items, key=value, reverse=True) of the nodes in `order`: stable, so
\* among equal values the earlier node comes first
sorted_desc(order, c) ==
    IF order = <<>> THEN <<>>
    ELSE LET Before(i, j) == c[order[i]][1] * c[order[j]][2] > c[order[j]][1] * c[order[i]][2]
             best == CHOOSE i \in 1..Len(order) :
                        /\ \A j \in 1..Len(order) : ~Before(j, i)
                        /\ \A j \in 1..(i - 1) : Before(i, j)
             rest == [k \in 1..(Len(order) - 1) |-> IF k < best THEN order[k] ELSE order[k + 1]]
         IN  <<order[best]>> \o sorted_desc(rest, c)

\* sorted(centrality.items(), ...)[:5]
top_central_nodes(G) ==
    LET c == degree_centrality(G)
        s == sorted_desc(G.order, c)
    IN  [k \in 1..(IF Len(s) < 5 THEN Len(s) ELSE 5) |-> <<s[k], c[s[k]]>>]

\* len(list(nx.community.greedy_modularity_communities(G))).  The library is
\* not part of the repository.  On a graph without edges it returns one
\* community per node or raises (division by the edge count), depending on its
\* version: both outcomes are kept.  On a graph with edges the model does not
\* compute the modularity merge: the count is any number a partition of the
\* nodes can have.
community_outcomes(G) ==
    IF G.edges = {}
    THEN {[raised |-> "ZeroDivisionError", communities |-> 0],
          [raised |-> "none", communities |-> Len(G.order)]}
    ELSE {[raised |-> "none", communities |-> k] : k \in 1..Len(G.order)}

\* the outcomes of build_tag_graph on data d with threat list threat: the graph
\* it stores, if it gets to line 128, and what it returns or raises
build_tag_graph_of(d, threat) ==
    IF ~AllHavePath(d)
    THEN {[raised |-> "KeyError", stored |-> FALSE]}
    ELSE LET G == tag_graph_of(d, threat)
         IN  {IF o.raised # "none"
              THEN [raised |-> o.raised, stored |-> TRUE, graph |-> G]
              ELSE [raised |-> "none", stored |-> TRUE, graph |-> G,
                    value |-> [nodes |-> Len(G.order),
                               edges |-> Cardinality(G.edges),
                               top_central_nodes |-> top_central_nodes(G),
                               communities |-> o.communities]]
              : o \in community_outcomes(G)}

build_tag_graph ==
    /\ loads > 0
    /\ \E r \in build_tag_graph_of(data, threat_items) :
          /\ tag_graph' = IF r.stored THEN r.graph ELSE tag_graph
          /\ ret' = Returned("build_tag_graph", r)
    /\ UNCHANGED <<data, threat_items, safe_items, correlations, loads>>

\* not self.tag_graph: None, or a graph without nodes
NoGraph(G) == G = <<>> \/ G.order = <<>>

-----------------------------------------------------------------------------
(* analyze_content *)

RECURSIVE any_same_path(_, _, _, _)
\* any(path == self.data[idx]['path'] for idx in self.threat_items) from the
\* k-th entry of the list on: "True", "False", or the exception the first bad
\* entry raises before a match is found
any_same_path(d, threat, k, path) ==
    IF k > Len(threat) THEN "False"
    ELSE IF threat[k] >= Len(d) THEN "IndexError"
    ELSE IF "path" \notin DOMAIN d[threat[k] + 1] THEN "KeyError"
    ELSE IF d[threat[k] + 1]["path"] = path THEN "True"
    ELSE any_same_path(d, threat, k + 1, path)

RECURSIVE text_contents_from(_, _, _, _)
\* the loop of lines 149-155 from the i-th item on, appending to acc
text_contents_from(d, threat, i, acc) ==
    IF i > Len(d) THEN [raised |-> "none", value |-> acc]
    ELSE LET item == d[i]
         IN  IF ~(item["type"] = "file" /\ HasContent(item))
             THEN text_contents_from(d, threat, i + 1, acc)
             ELSE IF "path" \notin DOMAIN item THEN [raised |-> "KeyError"]
             ELSE LET t == any_same_path(d, threat, 1, item["path"])
                  IN  IF t \notin {"True", "False"} THEN [raised |-> t]
                      ELSE text_contents_from(d, threat, i + 1,
                               Append(acc, [path |-> item["path"],
                                            content |-> item["content"],
                                            is_threat |-> (t = "True")]))

threat_keywords == <<"bomb", "attack", "threat", "explosive", "rifle", "planning", "illegal">>

\* keyword_occurrences: keyword -> the paths of the texts that contain it
keyword_occurrences_of(texts) ==
    LET Hit(keyword, i) == In(keyword, lower(texts[i].content))
    IN  [keyword \in {kw \in Range(threat_keywords) : \E i \in 1..Len(texts) : Hit(kw, i)} |->
            LET idxs == SelectSeq([i \in 1..Len(texts) |-> i], LAMBDA i : Hit(keyword, i))
            IN  [k \in 1..Len(idxs) |-> texts[idxs[k]].path]]

RECURSIVE pairs_from(_, _, _)
\* the index pairs of the double loop of lines 169-170 (0-based), in its order
pairs_from(i, j, n) ==
    IF i >= n THEN <<>>
    ELSE IF j >= n THEN pairs_from(i + 1, i + 2, n)
    ELSE <<<<i, j>>>> \o pairs_from(i, j + 1, n)

\* the threshold test with >= in place of >
significant_or_equal(overlap, union) == 10 * overlap >= union

\* overlap / len(union) > 0.1 in double arithmetic, for set sizes: the quotient
\* of 1 and 10 is the double 0.1 itself, and any larger quotient of small
\* integers lies far above it
significant(overlap, union) == 10 * overlap > union

\* content_similarity: one entry per pair of texts with words on both sides
\* and a significant similarity, kept as <<overlap, len(union)>>
content_similarity_of(texts) ==
    LET words == [i \in 1..Len(texts) |-> findall_words(lower(texts[i].content))]
        words1(p) == words[p[1] + 1]
        words2(p) == words[p[2] + 1]
        Emits(p) == /\ words1(p) # {} /\ words2(p) # {}
                    /\ significant(Cardinality(words1(p) \cap words2(p)),
                                   Cardinality(words1(p) \cup words2(p)))
        emitted == SelectSeq(pairs_from(0, 1, Len(texts)), Emits)
    IN  [k \in 1..Len(emitted) |->
            [file1 |-> texts[emitted[k][1] + 1].path,
             file2 |-> texts[emitted[k][2] + 1].path,
             similarity |-> <<Cardinality(words1(emitted[k]) \cap words2(emitted[k])),
                              Cardinality(words1(emitted[k]) \cup words2(emitted[k]))>>,
             common_words |-> words1(emitted[k]) \cap words2(emitted[k])]]

\* the outcome of analyze_content on data d with threat list threat
analyze_content_of(d, threat) ==
    LET t == text_contents_from(d, threat, 1, <<>>)
    IN  IF t.raised # "none" THEN t
        ELSE [raised |-> "none",
              value |-> [keyword_occurrences |-> keyword_occurrences_of(t.value),
                         content_similarity |-> content_similarity_of(t.value)]]

analyze_content ==
    /\ loads > 0
    /\ ret' = Returned("analyze_content", analyze_content_of(data, threat_items))
    /\ UNCHANGED <<data, threat_items, safe_items, correlations, tag_graph, loads>>

-----------------------------------------------------------------------------
(* extract_date_patterns *)

IsDigits(s) == \A i \in 1..Len(s) : Char(s, i) \in CharSet(Digits)

RECURSIVE int(_)
\* int(s) of a string of digits
int(s) ==
    IF s = "" THEN 0
    ELSE 10 * int(SubSeq(s, 1, Len(s) - 1)) + (IndexIn(Digits, Char(s, Len(s))) - 1)

\* (\d{4}-\d{2}-\d{2}) matches at position i of s
date_at(s, i) ==
    /\ i + 9 <= Len(s)
    /\ IsDigits(SubSeq(s, i, i + 3)) /\ Char(s, i + 4) = "-"
    /\ IsDigits(SubSeq(s, i + 5, i + 6)) /\ Char(s, i + 7) = "-"
    /\ IsDigits(SubSeq(s, i + 8, i + 9))

days_in_month(y, m) ==
    IF m = 2
    THEN (IF y % 4 = 0 /\ (y % 100 # 0 \/ y % 400 = 0) THEN 29 ELSE 28)
    ELSE IF m \in {4, 6, 9, 11} THEN 30 ELSE 31

\* datetime.strptime(text, '%Y-%m-%d') does not raise ValueError
is_calendar_date(text) ==
    LET y == int(SubSeq(text, 1, 4))
        m == int(SubSeq(text, 6, 7))
        dd == int(SubSeq(text, 9, 10))
    IN  y >= 1 /\ m \in 1..12 /\ dd >= 1 /\ dd <= days_in_month(y, m)

RECURSIVE strip_zeros(_)
\* a number of at least 1 printed without padding, from its padded digits
strip_zeros(digits) ==
    IF Char(digits, 1) = "0" THEN strip_zeros(SubSeq(digits, 2, Len(digits))) ELSE digits

\* date.strftime('%Y-%m-%d') of the date parsed from text: glibc prints the
\* year without padding, the month and the day with two digits
strftime(text) == strip_zeros(SubSeq(text, 1, 4)) \o SubSeq(text, 5, 10)

\* the date string of a path: matches[0], parsed and printed, if it parses;
\* "" if there is no match or it is no calendar date
file_date(path) ==
    IF ~\E i \in 1..Len(path) : date_at(path, i) THEN ""
    ELSE LET first == CHOOSE i \in 1..Len(path) :
                          date_at(path, i) /\ \A k \in 1..(i - 1) : ~date_at(path, k)
             text == SubSeq(path, first, first + 9)
         IN  IF is_calendar_date(text) THEN strftime(text) ELSE ""

RECURSIVE distinct(_)
\* the keys of a dict filled in the order of q: q without its repetitions
distinct(q) ==
    IF q = <<>> THEN <<>>
    ELSE LET front == distinct(SubSeq(q, 1, Len(q) - 1))
         IN  IF q[Len(q)] \in Range(front) THEN front ELSE Append(front, q[Len(q)])

\* the outcome of extract_date_patterns: date string -> the paths with that date
extract_date_patterns_of(d) ==
    IF ~AllHavePath(d) THEN [raised |-> "KeyError"]
    ELSE LET paths == distinct([i \in 1..Len(d) |-> d[i]["path"]])
             dated == SelectSeq(paths, LAMBDA q : file_date(q) # "")
         IN  [raised |-> "none",
              value |-> [date_str \in {file_date(q) : q \in Range(dated)} |->
                            SelectSeq(dated, LAMBDA q : file_date(q) = date_str)]]

-----------------------------------------------------------------------------
(* analyze_threats *)

\* Counter over the list q as the list of its <<key, count>> in insertion order
counter(q) ==
    LET keys == distinct(q)
    IN  [k \in 1..Len(keys) |->
            <<keys[k], Cardinality({i \in 1..Len(q) : q[i] = keys[k]})>>]

RECURSIVE concat(_)
concat(qs) == IF qs = <<>> THEN <<>> ELSE Head(qs) \o concat(Tail(qs))

\* the outcome of analyze_threats: the loop of lines 63-74 raises at the first
\* index that is out of range or whose item has no path
analyze_threats_of(d, threat) ==
    LET Bad(k) == threat[k] >= Len(d) \/ "path" \notin DOMAIN d[threat[k] + 1]
    IN  IF \E k \in 1..Len(threat) : Bad(k)
        THEN LET first == CHOOSE k \in 1..Len(threat) : Bad(k) /\ \A j \in 1..(k - 1) : ~Bad(j)
             IN  [raised |-> IF threat[first] >= Len(d) THEN "IndexError" ELSE "KeyError"]
        ELSE LET items == [k \in 1..Len(threat) |-> d[threat[k] + 1]]
             IN  [raised |-> "none",
                  value |-> [count |-> Len(threat),
                             types |-> counter([k \in 1..Len(items) |-> items[k]["type"]]),
                             tags |-> counter(concat([k \in 1..Len(items) |->
                                                         Get(items[k], "tags", <<>>)])),
                             files |-> [k \in 1..Len(items) |->
                                           [path |-> items[k]["path"],
                                            type |-> items[k]["type"],
                                            tags |-> Get(items[k], "tags", <<>>)]]]]

analyze_threats ==
    /\ loads > 0
    /\ ret' = Returned("analyze_threats", analyze_threats_of(data, threat_items))
    /\ UNCHANGED <<data, threat_items, safe_items, correlations, tag_graph, loads>>

-----------------------------------------------------------------------------
(* generate_threat_report *)

report_weapon_words == {"rifle", "revolver", "mask", "bulletproof"}

\* the weapon related tags without tag.lower()
weapon_related_tags_case_sensitive(tag_counts) ==
    LET keys == [k \in 1..Len(tag_counts) |-> tag_counts[k][1]]
    IN  SelectSeq(keys, LAMBDA tag : \E w \in report_weapon_words : In(w, tag))

\* lines 231-232: the keys of the tag counter that contain a weapon word
weapon_related_tags_of(tag_counts) ==
    LET keys == [k \in 1..Len(tag_counts) |-> tag_counts[k][1]]
    IN  SelectSeq(keys, LAMBDA tag : \E w \in report_weapon_words : In(w, lower(tag)))

\* lines 235-241: the files of the shared tags among the weapon related tags
related_files_of(weapon_related_tags, shared_tags) ==
    UNION {Range(shared_tags[tag]) : tag \in Range(weapon_related_tags) \cap DOMAIN shared_tags}

\* lines 244-264, once every analysis has returned
report_of(d, threat, corr, content_analysis, date_patterns, threat_analysis) ==
    LET weapon_related_tags == weapon_related_tags_of(threat_analysis.tags)
        threat_paths == {d[threat[k] + 1]["path"] : k \in 1..Len(threat)}
    IN  [summary |->
            [total_items |-> Len(d),
             threat_items |-> Len(threat),
             weapon_related_items |->
                 Cardinality({i \in 1..Len(d) :
                     \E tag \in Range(Get(d[i], "tags", <<>>)) : tag \in Range(weapon_related_tags)})],
         key_threats |->
            [weapon_related_tags |-> weapon_related_tags,
             related_files |-> related_files_of(weapon_related_tags, corr.shared_tags),
             key_content_keywords |-> content_analysis.keyword_occurrences],
         connections |->
            [tag_connections |-> corr.tag_cooccurrence,
             content_similarities |->
                 SelectSeq(content_analysis.content_similarity,
                           LAMBDA sim : sim.file1 \in threat_paths \/ sim.file2 \in threat_paths)],
         timeline |-> date_patterns]

\* lines 226-266 with the correlations corr and the graph G in place
report_outcome(d, threat, corr, G) ==
    LET content_analysis == analyze_content_of(d, threat)
        date_patterns == extract_date_patterns_of(d)
        threat_analysis == analyze_threats_of(d, threat)
        failed == IF content_analysis.raised # "none" THEN content_analysis.raised
                  ELSE IF date_patterns.raised # "none" THEN date_patterns.raised
                  ELSE threat_analysis.raised
    IN  IF failed # "none"
        THEN [raised |-> failed, correlations |-> corr, tag_graph |-> G]
        ELSE [raised |-> "none", correlations |-> corr, tag_graph |-> G,
              value |-> report_of(d, threat, corr, content_analysis.value,
                                  date_patterns.value, threat_analysis.value)]

\* the outcomes of generate_threat_report: the correlations and the graph are
\* computed only when the analyzer holds none, and an exception leaves what
\* the calls before it have stored
generate_threat_report_of(d, threat, corr, G) ==
    LET found == IF corr = <<>> THEN find_tag_correlations_of(d)
                 ELSE [raised |-> "none", value |-> corr]
    IN  IF found.raised # "none"
        THEN {[raised |-> found.raised, correlations |-> corr, tag_graph |-> G]}
        ELSE IF ~NoGraph(G)
        THEN {report_outcome(d, threat, found.value, G)}
        ELSE {IF ~b.stored
              THEN [raised |-> b.raised, correlations |-> found.value, tag_graph |-> G]
              ELSE IF b.raised # "none"
              THEN [raised |-> b.raised, correlations |-> found.value, tag_graph |-> b.graph]
              ELSE report_outcome(d, threat, found.value, b.graph)
              : b \in build_tag_graph_of(d, threat)}

generate_threat_report ==
    /\ loads > 0
    /\ \E r \in generate_threat_report_of(data, threat_items, correlations, tag_graph) :
          /\ correlations' = r.correlations
          /\ tag_graph' = r.tag_graph
          /\ ret' = Returned("generate_threat_report", r)
    /\ UNCHANGED <<data, threat_items, safe_items, loads>>

-----------------------------------------------------------------------------
(* visualize_tag_network: the drawing itself is done by matplotlib *)

\* lines 276-283: the colour of every node, in node order
node_colors(G) ==
    [k \in 1..Len(G.order) |->
        LET a == G.attrs[G.order[k]]
        IN  IF Get(a, "type", "None") = "tag" THEN "lightblue"
            ELSE IF Get(a, "is_threat", FALSE) THEN "red"
            ELSE "green"]

\* the outcomes of lines 270-283: the graph is built only when the analyzer
\* holds none
visualize_tag_network_of(d, threat, G) ==
    IF ~NoGraph(G)
    THEN {[raised |-> "none", tag_graph |-> G,
           value |-> [graph |-> G, colors |-> node_colors(G)]]}
    ELSE {IF ~b.stored THEN [raised |-> b.raised, tag_graph |-> G]
          ELSE IF b.raised # "none" THEN [raised |-> b.raised, tag_graph |-> b.graph]
          ELSE [raised |-> "none", tag_graph |-> b.graph,
                value |-> [graph |-> b.graph, colors |-> node_colors(b.graph)]]
          : b \in build_tag_graph_of(d, threat)}

visualize_tag_network ==
    /\ loads > 0
    /\ \E r \in visualize_tag_network_of(data, threat_items, tag_graph) :
          /\ tag_graph' = r.tag_graph
          /\ ret' = Returned("visualize_tag_network", r)
    /\ UNCHANGED <<data, threat_items, safe_items, correlations, loads>>

-----------------------------------------------------------------------------
(* Specifications *)

\* a session: up to MaxLoads loads on one analyzer
Load == \E d \in SessionDatasets : loads < MaxLoads /\ load_json_data(d)

\* the one load of a freshly constructed analyzer
LoadFresh == \E d \in FreshDatasets : loads = 0 /\ load_json_data(d)

Next == Load \/ find_tag_correlations \/ build_tag_graph \/ analyze_content \/ analyze_threats
                   \/ generate_threat_report \/ visualize_tag_network

Spec == Init /\ [][Next]_vars

NextFresh == LoadFresh \/ find_tag_correlations \/ build_tag_graph \/ analyze_content \/ analyze_threats
                   \/ generate_threat_report \/ visualize_tag_network

SpecFresh == Init /\ [][NextFresh]_vars

-----------------------------------------------------------------------------
(* Properties *)

TagsOf(item) == Range(Get(item, "tags", <<>>))

Indices(d) == 0..(Len(d) - 1)

\* the lists are a partition of the positions of d
IsPartition(d, threat, safe) ==
    /\ Range(threat) \cap Range(safe) = {}
    /\ Range(threat) \cup Range(safe) = Indices(d)
    /\ Len(threat) + Len(safe) = Len(d)

\* C1: after load_json_data on a freshly constructed analyzer, with a path in
\* every record, the threat list and the safe list are disjoint, hold no index
\* twice and together hold exactly the positions 0..n-1 of the loaded records.
C1_PartitionLaw ==
    (loads = 1 /\ AllHavePath(data)) => IsPartition(data, threat_items, safe_items)

\* a fresh load of two records, one on each list
C1_Witness ==
    /\ loads = 1 /\ AllHavePath(data) /\ Len(data) = 2
    /\ threat_items # <<>> /\ safe_items # <<>>

Rule1(item) == In("_threat", lower(item["path"]))

Rule2(item) == In("threat", lower(Get(item, "content", "")))

Rule3(item) == In("_safe", lower(item["path"]))

Rule4(item) ==
    \E w \in {"bomb", "attack", "explosive", "threat", "terrorist"} :
        In(w, lower(Get(item, "content", "")))

Rule5(item) ==
    \E w \in {"assault rifle", "rifle", "revolver", "weapon", "bulletproof"} :
        In(w, lower(str_list(Get(item, "tags", <<>>))))

\* C2: first match wins over the six rules in their order: a record is on the
\* threat list exactly when rule 1 or 2 matches, or rule 3 does not and rule 4
\* or 5 does, and on the safe list otherwise; so a record with '_safe' in its
\* path, without '_threat' in the path and without 'threat' in the content is
\* safe whatever its content keywords and tags, and a record with both
\* markers in its path is a threat.
C2_RulePriority ==
    (loads = 1 /\ AllHavePath(data)) =>
        \A i \in 1..Len(data) :
            LET item == data[i]
                isThreat == (i - 1) \in Range(threat_items)
                isSafe == (i - 1) \in Range(safe_items)
            IN  /\ isThreat <=> (Rule1(item) \/ Rule2(item)
                                 \/ (~Rule3(item) /\ (Rule4(item) \/ Rule5(item))))
                /\ isSafe <=> ~isThreat
                /\ (Rule3(item) /\ ~Rule1(item) /\ ~Rule2(item)) => isSafe
                /\ (Rule3(item) /\ Rule1(item)) => isThreat

\* a record marked _safe, with a content keyword and a weapon tag, on the safe list
C2_Witness ==
    /\ loads = 1 /\ AllHavePath(data)
    /\ \E i \in 1..Len(data) :
          /\ Rule3(data[i]) /\ ~Rule1(data[i]) /\ ~Rule2(data[i])
          /\ Rule4(data[i]) /\ Rule5(data[i])
          /\ (i - 1) \in Range(safe_items)

TextBearing(item) == item["type"] = "file" /\ HasContent(item)

Tokens(item) == findall_words(lower(item["content"]))

\* C7: every entry of content_similarity pairs two records at positions i < j,
\* both of type 'file' with non-empty token sets, its similarity is
\* |intersection| / |union| and lies in (0.1, 1.0]; a pair at exactly 0.1 or
\* below, or with an empty token set on a side, has no entry.
C7_SimilarityBounds ==
    (ret.op = "analyze_content" /\ ret.raised = "none") =>
        LET sims == ret.value.content_similarity
            Pair(i, j) == i < j /\ TextBearing(data[i]) /\ TextBearing(data[j])
            ov(i, j) == Cardinality(Tokens(data[i]) \cap Tokens(data[j]))
            un(i, j) == Cardinality(Tokens(data[i]) \cup Tokens(data[j]))
        IN  /\ \A k \in 1..Len(sims) :
                  \E i, j \in 1..Len(data) :
                      /\ Pair(i, j)
                      /\ sims[k].file1 = data[i]["path"] /\ sims[k].file2 = data[j]["path"]
                      /\ Tokens(data[i]) # {} /\ Tokens(data[j]) # {}
                      /\ sims[k].similarity = <<ov(i, j), un(i, j)>>
                      /\ 10 * ov(i, j) > un(i, j) /\ ov(i, j) <= un(i, j)
            /\ \A i, j \in 1..Len(data) :
                  (/\ Pair(i, j)
                   /\ (Tokens(data[i]) = {} \/ Tokens(data[j]) = {} \/ 10 * ov(i, j) <= un(i, j)))
                  => ~\E k \in 1..Len(sims) :
                         sims[k].file1 = data[i]["path"] /\ sims[k].file2 = data[j]["path"]

\* analyze_content has returned on two texts that share 1 word of 10, without an entry
C7_Witness ==
    /\ ret.op = "analyze_content" /\ ret.raised = "none"
    /\ ret.value.content_similarity = <<>>
    /\ \E i, j \in 1..Len(data) :
          /\ i < j /\ TextBearing(data[i]) /\ TextBearing(data[j])
          /\ Cardinality(Tokens(data[i]) \cap Tokens(data[j])) = 1
          /\ Cardinality(Tokens(data[i]) \cup Tokens(data[j])) = 10

WeaponLike(tag) == \E w \in {"rifle", "revolver", "mask", "bulletproof"} : In(w, lower(tag))

Reported == ret.op = "generate_threat_report" /\ ret.raised = "none"

\* C8 as stated: weapon_related_tags of the report is the set of the weapon-like
\* tags of all records, whether classified threat or safe.
C8_AllRecords ==
    Reported =>
        Range(ret.value.key_threats.weapon_related_tags)
            = {tag \in UNION {TagsOf(data[i]) : i \in 1..Len(data)} : WeaponLike(tag)}

\* C8 as amended: weapon_related_tags of the report lists, each once, the
\* weapon-like tags of the records the threat index list names.
C8_ThreatRecords ==
    Reported =>
        LET listed == ret.value.key_threats.weapon_related_tags
        IN  /\ Range(listed)
                 = {tag \in UNION {TagsOf(data[threat_items[k] + 1]) : k \in 1..Len(threat_items)} :
                        WeaponLike(tag)}
            /\ Cardinality(Range(listed)) = Len(listed)

\* a report that lists a weapon tag while a safe record carries one it leaves out
C8_Witness ==
    /\ Reported
    /\ ret.value.key_threats.weapon_related_tags # <<>>
    /\ \E i \in 1..Len(data) :
          /\ (i - 1) \in Range(safe_items)
          /\ \E tag \in TagsOf(data[i]) :
                WeaponLike(tag) /\ tag \notin Range(ret.value.key_threats.weapon_related_tags)

\* C3: whenever generate_threat_report returns, the tag co-occurrence map of
\* the report, the shared_tags it used and the relationship graph the analyzer
\* holds are those of the records currently loaded, never those cached from
\* records loaded before.
C3_CacheInvalidation ==
    Reported =>
        /\ ret.value.connections.tag_connections = tag_cooccurrence_of(data)
        /\ correlations.shared_tags = shared_tags_of(data)
        /\ tag_graph.order = tag_graph_of(data, threat_items).order
        /\ tag_graph.edges = tag_graph_of(data, threat_items).edges

\* the paths of the records that carry both tags
FilesWithBoth(d, a, b) ==
    {d[i]["path"] : i \in {k \in 1..Len(d) : a \in TagsOf(d[k]) /\ b \in TagsOf(d[k])}}

\* C4: every key of tag_cooccurrence is a sorted pair of two distinct tags,
\* never both (A,B) and (B,A), and its value is the number of distinct files
\* whose tags include both, also when a record repeats a tag.
C4_Cooccurrence ==
    (ret.op = "find_tag_correlations" /\ ret.raised = "none") =>
        LET co == ret.value.tag_cooccurrence
        IN  \A pr \in DOMAIN co :
                /\ pr[1] # pr[2]
                /\ StrLess(pr[1], pr[2])
                /\ <<pr[2], pr[1]>> \notin DOMAIN co
                /\ co[pr] = Cardinality(FilesWithBoth(data, pr[1], pr[2]))

\* C5: a load that fails on a record without a path leaves the threat list and
\* the safe list as they were before the call: empty, on a fresh analyzer.
C5_NoPartialClassification ==
    (loads = 1 /\ ret.op = "load_json_data" /\ ret.raised = "KeyError") =>
        (threat_items = <<>> /\ safe_items = <<>>)

\* C6: build_tag_graph on records that give a graph of 0 or 1 node reports
\* communities = 0 and an empty top_central_nodes.  Stated for the calls that
\* return: the claim also asks that the call does not fail, which the library
\* decides on a graph without edges.
C6_Degeneracy ==
    (/\ ret.op = "build_tag_graph" /\ ret.raised = "none"
     /\ Len(tag_graph_of(data, threat_items).order) <= 1) =>
        /\ ret.value.communities = 0
        /\ ret.value.top_central_nodes = <<>>

\* C9: the graph build_tag_graph stores is bipartite: every path is a node of
\* type 'file' with is_threat equal to its membership in the threat list,
\* every tag a node of type 'tag', and every edge joins a file node and a tag
\* node (no file-file edge, no tag-tag edge, no self-loop), also when a tag
\* equals a path.
C9_Bipartite ==
    (ret.op = "build_tag_graph" /\ AllHavePath(data)) =>
        LET G == tag_graph
            Type(n) == G.attrs[n]["type"]
        IN  /\ \A i \in 1..Len(data) :
                  /\ Type(data[i]["path"]) = "file"
                  /\ G.attrs[data[i]["path"]]["is_threat"] = ((i - 1) \in Range(threat_items))
                  /\ \A tag \in TagsOf(data[i]) : Type(tag) = "tag"
            /\ \A n \in DOMAIN G.attrs : Type(n) \in {"file", "tag"}
            /\ \A e \in G.edges : {Type(n) : n \in e} = {"file", "tag"}

\* C10: after two or more successful loads the lists describe the records
\* loaded last: disjoint, no index twice, none beyond the record count, and
\* together exactly 0..n-1.
C10_ReloadKeepsPartition ==
    (loads >= 2 /\ ret.op = "load_json_data" /\ ret.raised = "none") =>
        IsPartition(data, threat_items, safe_items)

====
